---------------------------- MODULE Spec2Model ----------------------------
(***************************************************************************)
(* Model of regionfixer_core/scan.py: the chunk classifier (scan_chunk),   *)
(* the region scanner (scan_region_file), the data file scanner            *)
(* (scan_data), the worker tasks (multiprocess_scan_regionfile,            *)
(* multiprocess_scan_data) and the scan sessions (AsyncRegionsetScanner,   *)
(* AsyncDataScanner) that collect the workers' results from the queue.     *)
(*                                                                         *)
(* Python tuples are TLA+ tuples; TLA+ indexes from 1 where Python indexes *)
(* from 0, so c[TUPLE_STATUS] of the source reads c[TUPLE_STATUS + 1].     *)
(* A Python dict is a function whose DOMAIN is the set of its keys.        *)
(***************************************************************************)
EXTENDS Integers, Sequences, FiniteSets, TLC

(***************************************************************************)
(* Bounds of the model.  A region file of the source has 32 x 32 slots.    *)
(***************************************************************************)
XSize == 2
ZSize == 2
MaxCreated == 2
EntityLimit == 1

(***************************************************************************)
(* scan.py:49-50                                                           *)
(***************************************************************************)
TUPLE_NUM_ENTITIES == 0
TUPLE_STATUS == 1

\* Python's None where the source stores it in a numeric field.
None == -1

\* self._world_obj of a session that no AsyncWorldScanner drives.
NoWorld == << >>

\* world.CHUNK_* and world.REGION_* (only their distinctness matters).
CHUNK_NOT_CREATED == "CHUNK_NOT_CREATED"
CHUNK_OK == "CHUNK_OK"
CHUNK_CORRUPTED == "CHUNK_CORRUPTED"
CHUNK_WRONG_LOCATED == "CHUNK_WRONG_LOCATED"
CHUNK_TOO_MANY_ENTITIES == "CHUNK_TOO_MANY_ENTITIES"
CHUNK_SHARED_OFFSET == "CHUNK_SHARED_OFFSET"
REGION_OK == "REGION_OK"
REGION_TOO_SMALL == "REGION_TOO_SMALL"
REGION_UNREADABLE == "REGION_UNREADABLE"
REGION_UNSCANNED == "REGION_UNSCANNED"

\* The local coordinates of a region file, and the raster order of the
\* two nested loops of scan_region_file (x outer, z inner).
Coords == (0 .. XSize - 1) \X (0 .. ZSize - 1)
NumSlots == XSize * ZSize
RasterCoord(i) == << i \div ZSize, i % ZSize >>

\* r.get_global_chunk_coords(x, z) for the region at the origin.
GlobalChunkCoords(x, z) == << x, z >>
\* A coordinate no slot of this region has: what a misplaced chunk declares.
ForeignCoords == << 0 - 1, 0 - 1 >>

(***************************************************************************)
(* What the format reader gives for one slot: the outcome of               *)
(* region_file.get_chunk (a chunk, or the exception raised), the           *)
(* coordinate and the number of entities the chunk declares, and whether   *)
(* region_file.metadata flags the slot STATUS_CHUNK_OVERLAPPING.  A slot   *)
(* that holds no chunk occupies no sector, so it is never flagged.         *)
(***************************************************************************)
DecodeErrors == {"RegionHeaderError", "ChunkDataError", "ChunkHeaderError"}
AbsentChunk ==
    [dec |-> "InconceivedChunk", data_coords |-> ForeignCoords,
     num_entities |-> 0, overlapping |-> FALSE]
ChunkInputs(x, z) ==
    {AbsentChunk}
    \cup [dec : {"chunk"},
          data_coords : {GlobalChunkCoords(x, z), ForeignCoords},
          num_entities : {EntityLimit, EntityLimit + 1},
          overlapping : BOOLEAN]
    \cup [dec : DecodeErrors, data_coords : {ForeignCoords},
          num_entities : {0}, overlapping : BOOLEAN]
    \cup [dec : {"Exception", "KeyboardInterrupt"},
          data_coords : {ForeignCoords},
          num_entities : {0}, overlapping : {FALSE}]

VARIABLES
    entity_limit,       \* the scan's entity_limit argument
    delete_entities,    \* the scan's delete_entities (remove_entities) argument
    scan,               \* the running call of scan_region_file
    kind,               \* the session's class: "regionset" or "data"
    processes,          \* the session's number of worker processes
    disk,               \* what the format reader finds in each task's file
    collection,         \* self._regionset or self._data_dict
    scanner,            \* self._results, the pool's state, _str_last_scanned
    taskq,              \* the batches of map_async no worker has taken yet
    workers,            \* each worker process: its state and its batch
    queue,              \* self.queue, the SimpleQueue of results
    ctl,                \* the controller: the caller of the session
    puts,               \* history: what each task has put on the queue
    delivered,          \* history: how often each task's result was returned
    raised,             \* history: the ChildProcessExceptions raised so far
    world               \* the AsyncWorldScanner around the session, if any

scanVars == << entity_limit, delete_entities, scan >>
sessionVars == << kind, processes, disk, collection, scanner, taskq, workers,
                  queue, ctl, puts, delivered, raised, world >>
vars == << entity_limit, delete_entities, scan, kind, processes, disk,
           collection, scanner, taskq, workers, queue, ctl, puts, delivered,
           raised, world >>

(***************************************************************************)
(* scan_chunk (scan.py:694-753): the record (num_entities, status) of one  *)
(* slot, << >> for Python's None, or the exception that escapes.           *)
(***************************************************************************)
ChunkStatusGE(data_coords, global_coords, num_entities, el) ==
    IF data_coords # global_coords THEN CHUNK_WRONG_LOCATED
    ELSE IF num_entities >= el THEN CHUNK_TOO_MANY_ENTITIES
    ELSE CHUNK_OK

ChunkStatus(data_coords, global_coords, num_entities, el) ==
    IF data_coords # global_coords THEN CHUNK_WRONG_LOCATED
    ELSE IF num_entities > el THEN CHUNK_TOO_MANY_ENTITIES
    ELSE CHUNK_OK

scan_chunkNoDecodeHandlers(ch, global_coords, el) ==
    CASE ch.dec = "chunk" ->
           [raised |-> "",
            c |-> << ch.num_entities,
                     ChunkStatus(ch.data_coords, global_coords,
                                 ch.num_entities, el) >>]
      [] ch.dec = "InconceivedChunk" ->
           [raised |-> "", c |-> << >>]
      [] OTHER ->
           [raised |-> "Exception", c |-> << >>]

scan_chunk(ch, global_coords, el) ==
    CASE ch.dec = "chunk" ->
           [raised |-> "",
            c |-> << ch.num_entities,
                     ChunkStatus(ch.data_coords, global_coords,
                                 ch.num_entities, el) >>]
      [] ch.dec = "InconceivedChunk" ->
           [raised |-> "", c |-> << >>]
      [] ch.dec \in DecodeErrors ->
           [raised |-> "", c |-> << None, CHUNK_CORRUPTED >>]
      [] OTHER ->
           [raised |-> ch.dec, c |-> << >>]


(***************************************************************************)
(* Python's d[k] = v on a dict.                                            *)
(***************************************************************************)
DictSet(d, k, v) ==
    [kk \in (DOMAIN d) \cup {k} |-> IF kk = k THEN v ELSE d[kk]]

EmptyDict == << >>

(***************************************************************************)
(* A ScannedRegionFile as world.py creates it: no chunk stored, nothing    *)
(* counted, not scanned.  Region file number n has coordinates << n, 0 >>. *)
(***************************************************************************)
NewScannedRegionFile(n) ==
    [filename |-> n, coords |-> << n, 0 >>, chunks |-> EmptyDict,
     chunk_count |-> 0, corrupted_chunks |-> 0, wrong_located_chunks |-> 0,
     entities_prob |-> 0, shared_offset |-> 0,
     status |-> REGION_UNSCANNED, scanned |-> FALSE]

\* What a task function hands to q.put: the scanned object itself, or the
\* tuple (object, (except_type, except_class, extract_tb(tb))).
NoReturn == [tuple |-> FALSE, obj |-> << >>, exc |-> << >>]
Success(obj) == [tuple |-> FALSE, obj |-> << obj >>, exc |-> << >>]
FaultTuple(obj, etype, where) ==
    [tuple |-> TRUE, obj |-> << obj >>, exc |-> << etype, etype, where >>]

(***************************************************************************)
(* scan_region_file (scan.py:574-691), as the steps of one call.  The      *)
(* state of a call: its place (pc), the raster index of the next slot (i), *)
(* the object being filled (r), the local counters, the slots that         *)
(* get_chunk has read so far (region_file), what opening the file gave     *)
(* (opened), the slots for which                                           *)
(* world.delete_entities was called, in call order (deleted), and the      *)
(* value returned (ret).  pc = "exit" is sys.exit(1): nothing is returned. *)
(***************************************************************************)
StartScan(r) ==
    [pc |-> "open", opened |-> "", i |-> 0, r |-> r,
     chunk_count |-> 0, corrupted |-> 0, wrong |-> 0, entities_prob |-> 0,
     region_file |-> EmptyDict, deleted |-> << >>, ret |-> NoReturn]

\* scan.py:677-691: the two handlers around the whole body.
RaiseInScanAsResult(st, etype, where) ==
    IF etype = "KeyboardInterrupt"
    THEN [st EXCEPT !.pc = "exit"]
    ELSE [st EXCEPT !.pc = "returned", !.ret = Success(st.r)]

RaiseInScanExit(st, etype, where) == [st EXCEPT !.pc = "exit"]

RaiseInScan(st, etype, where) ==
    IF etype = "KeyboardInterrupt"
    THEN [st EXCEPT !.pc = "exit"]
    ELSE [st EXCEPT !.pc = "returned", !.ret = FaultTuple(st.r, etype, where)]

OpenOutcomes ==
    {"ok", "NoRegionHeader", "IOError", "Exception", "KeyboardInterrupt"}

\* scan.py:595-607: region.RegionFile(r.path) and its handlers.
OpenNoShortCircuit(st0, outcome) ==
    LET st == [st0 EXCEPT !.opened = outcome]
    IN
    CASE outcome = "ok" -> [st EXCEPT !.pc = "loop"]
      [] outcome = "NoRegionHeader" ->
           [st EXCEPT !.pc = "loop", !.r.status = REGION_TOO_SMALL]
      [] outcome = "IOError" ->
           [st EXCEPT !.pc = "loop", !.r.status = REGION_UNREADABLE]
      [] OTHER -> RaiseInScan(st, outcome, "RegionFile")

OpenRegionFile(st0, outcome) ==
    LET st == [st0 EXCEPT !.opened = outcome]
    IN
    CASE outcome = "ok" -> [st EXCEPT !.pc = "loop"]
      [] outcome = "NoRegionHeader" ->
           LET r2 == [st.r EXCEPT !.status = REGION_TOO_SMALL,
                                  !.scanned = TRUE]
           IN [st EXCEPT !.pc = "returned", !.r = r2, !.ret = Success(r2)]
      [] outcome = "IOError" ->
           LET r2 == [st.r EXCEPT !.status = REGION_UNREADABLE,
                                  !.scanned = TRUE]
           IN [st EXCEPT !.pc = "returned", !.r = r2, !.ret = Success(r2)]
      [] OTHER -> RaiseInScan(st, outcome, "RegionFile")

\* scan.py:624-650: what the loop does with a stored record c of slot xz.
CountChunkNoDelete(st, xz, c, del) ==
    CASE c[TUPLE_STATUS + 1] = CHUNK_OK -> st
      [] c[TUPLE_STATUS + 1] = CHUNK_TOO_MANY_ENTITIES ->
           [st EXCEPT !.entities_prob = @ + 1]
      [] c[TUPLE_STATUS + 1] = CHUNK_CORRUPTED ->
           [st EXCEPT !.corrupted = @ + 1]
      [] c[TUPLE_STATUS + 1] = CHUNK_WRONG_LOCATED ->
           [st EXCEPT !.wrong = @ + 1]
      [] OTHER -> st

\* A loop that stores a wrong located chunk without counting it.
CountChunkSkipWrong(st, xz, c, del) ==
    CASE c[TUPLE_STATUS + 1] = CHUNK_OK -> st
      [] c[TUPLE_STATUS + 1] = CHUNK_TOO_MANY_ENTITIES ->
           IF del
           THEN [st EXCEPT !.deleted = Append(@, xz),
                           !.r.chunks = DictSet(@, xz, << 0, CHUNK_OK >>)]
           ELSE [st EXCEPT !.entities_prob = @ + 1]
      [] c[TUPLE_STATUS + 1] = CHUNK_CORRUPTED ->
           [st EXCEPT !.corrupted = @ + 1]
      [] OTHER -> st

CountChunkTwice(st, xz, c, del) ==
    CASE c[TUPLE_STATUS + 1] = CHUNK_OK -> st
      [] c[TUPLE_STATUS + 1] = CHUNK_TOO_MANY_ENTITIES ->
           IF del
           THEN [st EXCEPT !.deleted = Append(@, xz),
                           !.r.chunks = DictSet(@, xz, << 0, CHUNK_OK >>)]
           ELSE [st EXCEPT !.entities_prob = @ + 1]
      [] c[TUPLE_STATUS + 1] = CHUNK_CORRUPTED ->
           [st EXCEPT !.corrupted = @ + 1]
      [] c[TUPLE_STATUS + 1] = CHUNK_WRONG_LOCATED ->
           [st EXCEPT !.wrong = @ + 1, !.corrupted = @ + 1]
      [] OTHER -> st

CountChunk(st, xz, c, del) ==
    CASE c[TUPLE_STATUS + 1] = CHUNK_OK -> st
      [] c[TUPLE_STATUS + 1] = CHUNK_TOO_MANY_ENTITIES ->
           IF del
           THEN [st EXCEPT !.deleted = Append(@, xz),
                           !.r.chunks = DictSet(@, xz, << 0, CHUNK_OK >>)]
           ELSE [st EXCEPT !.entities_prob = @ + 1]
      [] c[TUPLE_STATUS + 1] = CHUNK_CORRUPTED ->
           [st EXCEPT !.corrupted = @ + 1]
      [] c[TUPLE_STATUS + 1] = CHUNK_WRONG_LOCATED ->
           [st EXCEPT !.wrong = @ + 1]
      [] OTHER -> st

\* scan.py:609-650: one turn of the loops, reading chunk ch at slot i.
ScanLoopBody(st, ch, el, del) ==
    LET xz == RasterCoord(st.i)
        g_coords == GlobalChunkCoords(xz[1], xz[2])
        sc == scan_chunk(ch, g_coords, el)
        c == sc.c
        read == [st EXCEPT !.region_file = DictSet(@, xz, ch)]
        next == [read EXCEPT !.i = @ + 1,
                             !.pc = IF st.i + 1 = NumSlots
                                    THEN "shared" ELSE "loop"]
    IN IF sc.raised # ""
       THEN RaiseInScan(read, sc.raised, "scan_chunk")
       ELSE IF c # << >>
            THEN CountChunk([next EXCEPT !.r.chunks = DictSet(@, xz, c),
                                        !.chunk_count = @ + 1],
                            xz, c, del)
            ELSE next

\* scan.py:658-661: the slots the post-pass reclassifies.
SharingAllOverlapping(st) ==
    {k \in DOMAIN st.r.chunks :
        k \in DOMAIN st.region_file /\ st.region_file[k].overlapping}

Sharing(st) ==
    {k \in DOMAIN st.r.chunks :
        /\ k \in DOMAIN st.region_file
        /\ st.region_file[k].overlapping
        /\ st.r.chunks[k][TUPLE_STATUS + 1] = CHUNK_WRONG_LOCATED}

\* scan.py:652-675: the shared-offset pass, the counters, the return.
\* r[k] of a slot that is flagged but not stored raises KeyError.
SharedOffsetPass(st) ==
    IF \E k \in DOMAIN st.region_file :
          st.region_file[k].overlapping /\ k \notin DOMAIN st.r.chunks
    THEN RaiseInScan(st, "KeyError", "scan_region_file")
    ELSE
    LET sharing == Sharing(st)
        chunks2 == [k \in DOMAIN st.r.chunks |->
                      IF k \in sharing
                      THEN << st.r.chunks[k][TUPLE_NUM_ENTITIES + 1],
                              CHUNK_SHARED_OFFSET >>
                      ELSE st.r.chunks[k]]
        r2 == [st.r EXCEPT !.chunks = chunks2,
                           !.chunk_count = st.chunk_count,
                           !.corrupted_chunks = st.corrupted,
                           !.wrong_located_chunks = st.wrong,
                           !.entities_prob = st.entities_prob,
                           !.shared_offset = Cardinality(sharing),
                           !.status = REGION_OK,
                           !.scanned = TRUE]
    IN [st EXCEPT !.pc = "returned", !.r = r2, !.ret = Success(r2)]

\* How many of the slots read so far hold something (a bound of the model).
Created(st) ==
    Cardinality({k \in DOMAIN st.region_file :
                    st.region_file[k] # AbsentChunk})

(***************************************************************************)
(* The steps of one call of scan_region_file.                              *)
(***************************************************************************)
ScanOpen ==
    /\ scan.pc = "open"
    /\ \E outcome \in OpenOutcomes : scan' = OpenRegionFile(scan, outcome)
    /\ UNCHANGED << entity_limit, delete_entities >>
    /\ UNCHANGED sessionVars

ScanChunk ==
    /\ scan.pc = "loop"
    /\ \E ch \in ChunkInputs(RasterCoord(scan.i)[1], RasterCoord(scan.i)[2]) :
          /\ ch # AbsentChunk => Created(scan) < MaxCreated
          /\ scan' = ScanLoopBody(scan, ch, entity_limit, delete_entities)
    /\ UNCHANGED << entity_limit, delete_entities >>
    /\ UNCHANGED sessionVars

ScanShared ==
    /\ scan.pc = "shared"
    /\ scan' = SharedOffsetPass(scan)
    /\ UNCHANGED << entity_limit, delete_entities >>
    /\ UNCHANGED sessionVars

\* The session's variables where no session runs.
NoSession ==
    /\ kind = "none"
    /\ processes = 1
    /\ disk = << >>
    /\ collection = EmptyDict
    /\ scanner = << >>
    /\ taskq = << >>
    /\ workers = << >>
    /\ queue = << >>
    /\ ctl = << >>
    /\ puts = << >>
    /\ delivered = << >>
    /\ raised = << >>
    /\ world = NoWorld

InitRegion ==
    /\ entity_limit = EntityLimit
    /\ delete_entities \in BOOLEAN
    /\ scan = StartScan(NewScannedRegionFile(1))
    /\ NoSession

NextRegion == ScanOpen \/ ScanChunk \/ ScanShared

SpecRegion == InitRegion /\ [][NextRegion]_vars

(***************************************************************************)
(* scan_region_file as one call: open, the loops over every slot of the    *)
(* file, the shared-offset pass.  file.chunks gives, for every slot, what  *)
(* the format reader finds there.  The state after each step is bound to   *)
(* its value, as a one-element set, before the next step reads it.         *)
(***************************************************************************)
RECURSIVE ScanLoops(_, _, _, _)
ScanLoops(st, file, el, del) ==
    IF st.pc # "loop" THEN st
    ELSE CHOOSE done \in
            {ScanLoops(turn, file, el, del) :
                turn \in {ScanLoopBody(st, file.chunks[RasterCoord(st.i)],
                                       el, del)}} : TRUE

scan_region_file(r, file, el, del) ==
    CHOOSE done \in
       {IF looped.pc = "shared" THEN SharedOffsetPass(looped) ELSE looped :
           looped \in {ScanLoops(opened, file, el, del) :
                          opened \in {OpenRegionFile(StartScan(r),
                                                     file.open)}}} : TRUE

(***************************************************************************)
(* scan_data (scan.py:524-558).  A ScannedDatFile as world.py creates it;  *)
(* readable is Python's None, True or False.  dat.dec is what nbt.NBTFile  *)
(* does with the file (either way of opening it), dat.msg is str(e).       *)
(***************************************************************************)
NewScannedDatFile(n) ==
    [filename |-> n, readable |-> "None", status_text |-> ""]

DataOutcomes ==
    {"ok", "MalformedFileError", "IOError", "Exception", "KeyboardInterrupt"}

scan_dataOnlyMalformed(s, dat) ==
    CASE dat.dec = "ok" ->
           [pc |-> "returned", ret |-> Success([s EXCEPT !.readable = "True"])]
      [] dat.dec = "MalformedFileError" ->
           [pc |-> "returned",
            ret |-> Success([s EXCEPT !.readable = "False",
                                      !.status_text = dat.msg])]
      [] OTHER ->
           [pc |-> "returned",
            ret |-> FaultTuple([s EXCEPT !.readable = "False"],
                               dat.dec, "scan_data")]

scan_data(s, dat) ==
    CASE dat.dec = "ok" ->
           [pc |-> "returned", ret |-> Success([s EXCEPT !.readable = "True"])]
      [] dat.dec \in {"MalformedFileError", "IOError"} ->
           [pc |-> "returned",
            ret |-> Success([s EXCEPT !.readable = "False",
                                      !.status_text = dat.msg])]
      [] OTHER ->
           [pc |-> "returned",
            ret |-> FaultTuple([s EXCEPT !.readable = "False"],
                               dat.dec, "scan_data")]

(***************************************************************************)
(* The files of a session's tasks.                                         *)
(***************************************************************************)
ChunksOfFile(c0, c1) ==
    [k \in Coords |-> IF k = RasterCoord(0) THEN c0
                      ELSE IF k = RasterCoord(1) THEN c1
                      ELSE AbsentChunk]
MisplacedChunk ==
    [dec |-> "chunk", data_coords |-> ForeignCoords, num_entities |-> 0,
     overlapping |-> TRUE]
OverfullChunk ==
    [dec |-> "chunk", data_coords |-> RasterCoord(1),
     num_entities |-> EntityLimit + 1, overlapping |-> TRUE]
CorruptChunk ==
    [dec |-> "ChunkDataError", data_coords |-> ForeignCoords,
     num_entities |-> 0, overlapping |-> FALSE]
RaisingChunk(etype) ==
    [dec |-> etype, data_coords |-> ForeignCoords, num_entities |-> 0,
     overlapping |-> FALSE]
RegionFiles ==
    {[open |-> o, chunks |-> ChunksOfFile(MisplacedChunk, OverfullChunk)] :
        o \in {"ok", "NoRegionHeader", "IOError"}}
    \cup {[open |-> "ok",
           chunks |-> ChunksOfFile(CorruptChunk, RaisingChunk(e))] :
             e \in {"Exception", "KeyboardInterrupt"}}
DataFiles == [dec : DataOutcomes, msg : {"str(e)"}]

(***************************************************************************)
(* The scan session: AsyncRegionsetScanner (scan.py:112-216) and           *)
(* AsyncDataScanner (scan.py:325-414).  Task n scans file n; its object    *)
(* has filename n and, in a regionset, coordinates << n, 0 >>.             *)
(***************************************************************************)
MaxTasks == 2
MaxProcs == 2

TaskIds == 1 .. Len(disk)
NewObject(k, n) ==
    IF k = "regionset" THEN NewScannedRegionFile(n) ELSE NewScannedDatFile(n)

\* The key get_last_result and results overwrite: r.get_coords() in the
\* regionset, p.filename in the data dict.
Key(obj) == IF kind = "regionset" THEN obj.coords ELSE obj.filename

\* The keys in the order list_regions and values() give them.
KeyOfTask(n) == Key(NewObject(kind, n))

\* Pool.map_async cuts the task list into batches of chunksize tasks.
Min(a, b) == IF a < b THEN a ELSE b
Max(a, b) == IF a > b THEN a ELSE b
\* A submission that hands every task to the pool twice, one to a batch.
BatchesTwice(tasks, chunksize) ==
    [i \in 1 .. 2 * Len(tasks) |-> << tasks[((i - 1) % Len(tasks)) + 1] >>]
BatchesFirstOnly(tasks, chunksize) ==
    IF tasks = << >> THEN << >>
    ELSE << SubSeq(tasks, 1, IF chunksize < Len(tasks)
                             THEN chunksize ELSE Len(tasks)) >>
RECURSIVE Batches(_, _)
Batches(tasks, chunksize) ==
    IF tasks = << >> THEN << >>
    ELSE LET n == Min(chunksize, Len(tasks))
         IN << SubSeq(tasks, 1, n) >>
            \o Batches(SubSeq(tasks, n + 1, Len(tasks)), chunksize)

\* _str_last_scanned is None, then "", then names the last file scanned;
\* files are named by their numbers, and 0 stands for the empty string.
EmptyString == 0

\* A ready() that is true as soon as a worker has taken each batch.
ReadyWhenTaken == scanner.submitted /\ taskq = << >>
\* A ready() that is true from the submission on, whatever is left.
ReadyOnSubmit == scanner.submitted
\* self._results.ready() and self.queue.empty()
Ready == scanner.submitted /\ scanner.number_left = 0
QueueEmpty == queue = << >>

\* The place the controller goes on from when the loop it is in goes on:
\* the check "not q.empty()" that guards every q.get().
GetUnchecked(mode) == "get"
LoopBody(mode) == "chk_empty"

\* finished (scan.py:179-182, 376-379): ready() and queue.empty(), the
\* queue being asked only when ready() is true.
FinishedReadyOnly(is_ready, mode) ==
    IF is_ready THEN "done" ELSE LoopBody(mode)
FinishedAfterReady(is_ready, mode) ==
    IF is_ready THEN "fin_empty" ELSE LoopBody(mode)
FinishedAfterEmpty(is_empty, mode) ==
    IF is_empty THEN "done" ELSE LoopBody(mode)

\* isinstance(r, tuple)
NeverTuple(r) == FALSE
IsTuple(r) == r.tuple

ChildProcessException(partial_scanned_file, exc_type, exc_class, tb_text) ==
    [scanned_file |-> partial_scanned_file, exc_type |-> exc_type,
     exc_class |-> exc_class, tb_text |-> tb_text]

\* self._regionset[r.get_coords()] = r, self._data_dict[p.filename] = p
\* A write that files the result under a key of its own.
OverwriteBeside(coll, obj) ==
    DictSet(coll,
            IF kind = "regionset" THEN << obj.coords[1], obj.coords[2] + 1 >>
            ELSE 0 - obj.filename,
            obj)
OverwriteIfNew(coll, obj) ==
    IF Key(obj) \in DOMAIN coll THEN coll ELSE DictSet(coll, Key(obj), obj)
Overwrite(coll, obj) == DictSet(coll, Key(obj), obj)

\* The task function of the pool: the scan of one file.
TaskFunction(obj) ==
    IF kind = "regionset"
    THEN scan_region_file(obj, disk[obj.filename], entity_limit,
                          delete_entities)
    ELSE scan_data(obj, disk[obj.filename])

InitSession ==
    /\ entity_limit = EntityLimit
    /\ scan = << >>
    /\ kind \in {"regionset", "data"}
    /\ delete_entities \in (IF kind = "regionset" THEN BOOLEAN ELSE {FALSE})
    /\ processes \in 1 .. MaxProcs
    /\ \E n \in 0 .. MaxTasks :
          disk \in [1 .. n -> IF kind = "regionset"
                              THEN RegionFiles ELSE DataFiles]
    /\ collection = [k \in {KeyOfTask(n) : n \in TaskIds} |->
                        NewObject(kind, IF kind = "regionset" THEN k[1] ELSE k)]
    /\ scanner = [submitted |-> FALSE, closed |-> FALSE, number_left |-> 0,
                  str_last_scanned |-> None]
    /\ taskq = << >>
    /\ workers = [w \in 1 .. processes |->
                     [state |-> "idle", batch |-> << >>, lost |-> << >>]]
    /\ queue = << >>
    /\ \E mode \in {"pull", "stream"} :
          ctl = [mode |-> mode, pc |-> "start", result |-> << >>,
                 terminated |-> FALSE, errors |-> << >>]
    /\ puts = [n \in TaskIds |-> << >>]
    /\ delivered = [n \in TaskIds |-> 0]
    /\ raised = << >>
    /\ world = NoWorld

ctlVars == << collection, scanner, queue, ctl, delivered, raised >>
poolVars == << taskq, workers, puts >>
fixedVars == << entity_limit, delete_entities, scan, kind, processes, disk,
               world >>

(***************************************************************************)
(* scan() (scan.py:133-143, 341-352): map_async of the whole task list in  *)
(* batches of max(1, total // processes), then pool.close().  The pool    *)
(* pickles the objects of the collection into the tasks.                   *)
(***************************************************************************)
MapAsync(coll) ==
    LET total == Cardinality(DOMAIN coll)
        tasks == [n \in 1 .. total |-> coll[KeyOfTask(n)]]
    IN Batches(tasks, Max(1, total \div processes))

Scan ==
    LET batches == MapAsync(collection)
    IN /\ ~ scanner.closed
       /\ taskq' = batches
       /\ scanner' = [submitted |-> TRUE, closed |-> TRUE,
                      number_left |-> Len(batches),
                      str_last_scanned |-> EmptyString]

\* console_scan_loop (scan.py:433-440) scans nothing when len(scanner) is 0;
\* a caller of results calls scan() and then reads the generator.
CtlStart ==
    /\ ctl.pc = "start"
    /\ IF ctl.mode = "pull" /\ Cardinality(DOMAIN collection) = 0
       THEN /\ ctl' = [ctl EXCEPT !.pc = "done"]
            /\ UNCHANGED << scanner, taskq >>
       ELSE /\ Scan
            /\ ctl' = [ctl EXCEPT !.pc = IF ctl.mode = "pull"
                                         THEN "fin_ready" ELSE "res_empty"]
    /\ UNCHANGED << collection, queue, delivered, raised, workers, puts >>
    /\ UNCHANGED fixedVars

\* results (scan.py:203, 401): "not q.empty() or ..." of the while.
CtlResultsEmpty ==
    /\ ctl.pc = "res_empty"
    /\ ctl' = [ctl EXCEPT !.pc = IF ~ QueueEmpty THEN LoopBody(ctl.mode)
                                 ELSE "fin_ready"]
    /\ UNCHANGED << collection, scanner, queue, delivered, raised >>
    /\ UNCHANGED poolVars
    /\ UNCHANGED fixedVars

\* finished: self._results.ready()
CtlFinishedReady ==
    /\ ctl.pc = "fin_ready"
    /\ ctl' = [ctl EXCEPT !.pc = FinishedAfterReady(Ready, ctl.mode)]
    /\ UNCHANGED << collection, scanner, queue, delivered, raised >>
    /\ UNCHANGED poolVars
    /\ UNCHANGED fixedVars

\* finished: self.queue.empty()
CtlFinishedEmpty ==
    /\ ctl.pc = "fin_empty"
    /\ ctl' = [ctl EXCEPT !.pc = FinishedAfterEmpty(QueueEmpty, ctl.mode)]
    /\ UNCHANGED << collection, scanner, queue, delivered, raised >>
    /\ UNCHANGED poolVars
    /\ UNCHANGED fixedVars

\* get_last_result (scan.py:156, 166-167, 360, 368-369) and the body of
\* results (scan.py:206, 404): "if not q.empty()"; get_last_result returns
\* None when the queue is empty.
CtlCheckEmpty ==
    /\ ctl.pc = "chk_empty"
    /\ ctl' = IF ~ QueueEmpty THEN [ctl EXCEPT !.pc = "get"]
              ELSE IF ctl.mode = "pull"
                   THEN [ctl EXCEPT !.pc = "fin_ready", !.result = << >>]
                   ELSE [ctl EXCEPT !.pc = "res_empty"]
    /\ UNCHANGED << collection, scanner, queue, delivered, raised >>
    /\ UNCHANGED poolVars
    /\ UNCHANGED fixedVars

\* get_last_result (scan.py:157-165, 361-367) and results (scan.py:207-213,
\* 405-411): q.get(), which blocks while the queue is empty; a tuple raises
\* ChildProcessException, anything else overwrites the collection and is
\* returned (yielded).
CtlGet ==
    /\ ctl.pc = "get"
    /\ queue # << >>
    /\ LET r == Head(queue)
       IN /\ queue' = Tail(queue)
          /\ IF IsTuple(r)
             THEN /\ raised' = Append(raised,
                                  ChildProcessException(r.obj[1], r.exc[1],
                                                        r.exc[2], r.exc[3]))
                  /\ ctl' = [ctl EXCEPT !.pc = "raised"]
                  /\ UNCHANGED << collection, scanner, delivered >>
             ELSE /\ collection' = Overwrite(collection, r.obj[1])
                  /\ scanner' =
                       IF kind = "regionset" /\ ctl.mode = "pull"
                       THEN [scanner EXCEPT
                               !.str_last_scanned = r.obj[1].filename]
                       ELSE scanner
                  /\ delivered' =
                       [delivered EXCEPT ![r.obj[1].filename] = @ + 1]
                  /\ ctl' = [ctl EXCEPT !.result = r.obj,
                                        !.pc = IF ctl.mode = "pull"
                                               THEN "fin_ready"
                                               ELSE "res_empty"]
                  /\ UNCHANGED raised
    /\ UNCHANGED poolVars
    /\ UNCHANGED fixedVars

\* A caller that handles the ChildProcessException and goes on: it calls
\* get_last_result again, or reads results again (console_scan_loop,
\* scan.py:455-461, raises it again and stops instead).
CtlResume ==
    /\ ctl.pc = "raised"
    /\ ctl' = [ctl EXCEPT !.pc = IF ctl.mode = "pull"
                                 THEN "fin_ready" ELSE "res_empty"]
    /\ UNCHANGED << collection, scanner, queue, delivered, raised >>
    /\ UNCHANGED poolVars
    /\ UNCHANGED fixedVars

Controller ==
    \/ CtlStart
    \/ CtlResultsEmpty
    \/ CtlFinishedReady
    \/ CtlFinishedEmpty
    \/ CtlCheckEmpty
    \/ CtlGet
    \/ CtlResume

(***************************************************************************)
(* The worker processes of the pool.  A worker takes a batch, runs the     *)
(* task function on each task of it in turn, and then reports the batch    *)
(* done; self._results is ready when every batch is reported.              *)
(***************************************************************************)
WorkerTake(w) ==
    /\ workers[w].state = "idle"
    /\ taskq # << >>
    /\ workers' = [workers EXCEPT ![w].state = "busy",
                                  ![w].batch = Head(taskq)]
    /\ taskq' = Tail(taskq)
    /\ UNCHANGED << puts >>
    /\ UNCHANGED ctlVars
    /\ UNCHANGED fixedVars

\* multiprocess_scan_regionfile (scan.py:765-776) and
\* multiprocess_scan_data (scan.py:561-565): scan, then q.put of what the
\* scan returned.  sys.exit(1) in the scan ends the worker process, and
\* what was left of its batch is lost: nothing runs or reports it.
WorkerTask(w) ==
    /\ workers[w].state = "busy"
    /\ workers[w].batch # << >>
    /\ \E obj \in {Head(workers[w].batch)} : \E done \in {TaskFunction(obj)} :
          IF done.pc = "exit"
          THEN /\ workers' = [workers EXCEPT
                                ![w].state = "dead",
                                ![w].batch = << >>,
                                ![w].lost = Append(@, workers[w].batch)]
               /\ UNCHANGED << queue, puts >>
          ELSE /\ queue' = Append(queue, done.ret)
               /\ puts' = [puts EXCEPT ![obj.filename] = Append(@, done.ret)]
               /\ workers' = [workers EXCEPT ![w].batch = Tail(@)]
    /\ UNCHANGED << taskq, collection, scanner, ctl, delivered, raised >>
    /\ UNCHANGED fixedVars

WorkerReport(w) ==
    /\ workers[w].state = "busy"
    /\ workers[w].batch = << >>
    /\ workers' = [workers EXCEPT ![w].state = "idle"]
    /\ scanner' = [scanner EXCEPT !.number_left = @ - 1]
    /\ UNCHANGED << taskq, puts, collection, queue, ctl, delivered, raised >>
    /\ UNCHANGED fixedVars

\* The pool of scan.py:123-125 may start another process in the place of
\* one that has ended, or may not: its handler thread decides, and after
\* pool.close() that depends on the release of the library.
WorkerRespawn(w) ==
    /\ workers[w].state = "dead"
    /\ workers' = [workers EXCEPT ![w].state = "idle"]
    /\ UNCHANGED << taskq, puts >>
    /\ UNCHANGED ctlVars
    /\ UNCHANGED fixedVars

Worker(w) == WorkerTake(w) \/ WorkerTask(w) \/ WorkerReport(w)

Next == Controller \/ \E w \in 1 .. processes : Worker(w) \/ WorkerRespawn(w)

Spec == InitSession /\ [][Next]_vars

(***************************************************************************)
(* A caller that, between two calls of the loop it runs, also calls        *)
(* terminate() or calls scan() a second time.                              *)
(***************************************************************************)
MaxErrors == 1

\* Between two calls: before the caller asks finished, or before the
\* generator tests its loop condition.
BetweenCalls == scanner.submitted /\ ctl.pc \in {"fin_ready", "res_empty"}

\* terminate() (scan.py:169-172): pool.terminate() drops the tasks no worker
\* has taken and ends every worker process, with the task it is running.
\* AsyncDataScanner (scan.py:325-414) defines no terminate: the call raises
\* AttributeError and the pool goes on.
CtlTerminate ==
    /\ BetweenCalls
    /\ ~ ctl.terminated
    /\ IF kind = "regionset"
       THEN /\ taskq' = << >>
            /\ workers' = [w \in DOMAIN workers |->
                             [workers[w] EXCEPT !.state = "terminated",
                                                !.batch = << >>]]
            /\ ctl' = [ctl EXCEPT !.terminated = TRUE]
       ELSE /\ Len(ctl.errors) < MaxErrors
            /\ ctl' = [ctl EXCEPT !.terminated = TRUE,
                                  !.errors = Append(@, "AttributeError")]
            /\ UNCHANGED << taskq, workers >>
    /\ UNCHANGED << collection, scanner, queue, delivered, raised, puts >>
    /\ UNCHANGED fixedVars

\* scan() on a session whose pool is closed (scan.py:136-138, 345-347):
\* map_async asserts that the pool is running, so the call raises
\* AssertionError before anything is submitted or assigned.
CtlScanAgain ==
    /\ BetweenCalls
    /\ scanner.closed
    /\ Len(ctl.errors) < MaxErrors
    /\ ctl' = [ctl EXCEPT !.errors = Append(@, "AssertionError")]
    /\ UNCHANGED << collection, scanner, queue, delivered, raised >>
    /\ UNCHANGED poolVars
    /\ UNCHANGED fixedVars

NextCaller == Next \/ CtlTerminate \/ CtlScanAgain

SpecCaller == InitSession /\ [][NextCaller]_vars

\* The pool runs its live workers, and the caller goes on calling.
FairSpecCaller ==
    /\ SpecCaller
    /\ WF_vars(Controller)
    /\ \A w \in 1 .. MaxProcs : WF_vars(w \in 1 .. processes /\ Worker(w))

\* The pool runs its live workers, and the caller goes on calling.
FairSpec ==
    /\ Spec
    /\ WF_vars(Controller)
    /\ \A w \in 1 .. MaxProcs : WF_vars(w \in 1 .. processes /\ Worker(w))

(***************************************************************************)
(* The multi-set session: AsyncWorldScanner (scan.py:219-322).  It keeps   *)
(* the queue self.regionsets of the sets it has not started, and           *)
(* self._current_regionset, the AsyncRegionsetScanner of the set it        *)
(* started last.  The session variables hold that inner session: scan()    *)
(* replaces them by a new session with a pool of its own.                  *)
(*   world.sets       what is on disk for each regionset of the world      *)
(*   world.regionsets self.regionsets, as indices into world.sets          *)
(*   world.current    the set of self._current_regionset, or None          *)
(*   world.started    history: the sets scan() has started, in order       *)
(*   world.colls      the regionset objects of world_obj; the one of the   *)
(*                    current set is written back when it is replaced      *)
(***************************************************************************)
MaxSets == 2

\* The region files of a world: one that scans to the end, one whose scan
\* raises an unclassified exception, one whose scan is interrupted.
WorldFiles ==
    {[open |-> "ok", chunks |-> ChunksOfFile(MisplacedChunk, c)] :
        c \in {OverfullChunk, RaisingChunk("Exception"),
               RaisingChunk("KeyboardInterrupt")}}

\* A regionset of n region files no scan has touched.
NewRegionset(n) ==
    [k \in {Key(NewObject("regionset", t)) : t \in 1 .. n} |->
        NewObject("regionset", k[1])]

\* __init__ (scan.py:220-235): the queue is a copy of world_obj.regionsets,
\* there is no current session.  A world has at least one regionset.
InitWorld ==
    /\ entity_limit = EntityLimit
    /\ delete_entities = FALSE
    /\ scan = << >>
    /\ kind = "regionset"
    /\ processes \in 1 .. MaxProcs
    /\ \E n \in 1 .. MaxSets :
          \E sets \in [1 .. n -> UNION {[1 .. m -> WorldFiles] :
                                           m \in 0 .. MaxTasks}] :
             world = [sets |-> sets,
                      regionsets |-> [i \in 1 .. n |-> i],
                      current |-> None,
                      started |-> << >>,
                      colls |-> [i \in 1 .. n |-> NewRegionset(Len(sets[i]))]]
    /\ disk = << >>
    /\ collection = EmptyDict
    /\ scanner = [submitted |-> FALSE, closed |-> FALSE, number_left |-> 0,
                  str_last_scanned |-> None]
    /\ taskq = << >>
    /\ workers = [w \in 1 .. processes |->
                     [state |-> "idle", batch |-> << >>, lost |-> << >>]]
    /\ queue = << >>
    /\ \E mode \in {"pull", "stream"} :
          ctl = [mode |-> mode, pc |-> "start", result |-> << >>,
                 terminated |-> FALSE, errors |-> << >>]
    /\ puts = << >>
    /\ delivered = << >>
    /\ raised = << >>

worldFixed == << entity_limit, delete_entities, scan, kind, processes >>
innerVars == << disk, collection, scanner, taskq, workers, queue, puts,
                delivered, raised >>

\* A length that counts the first queued set only.
LenFirstOnly(q) == IF q = << >> THEN 0 ELSE Len(world.sets[Head(q)])

\* __len__ (scan.py:318-322): the files of the sets still queued.
RECURSIVE SumLen(_)
SumLen(q) ==
    IF q = << >> THEN 0 ELSE Len(world.sets[Head(q)]) + SumLen(Tail(q))
WorldLen == SumLen(world.regionsets)

\* The last of the queue, where the source pops the first.
PopLast(q) == q[Len(q)]

\* The head of the queue (scan.py:238: self.regionsets.pop(0)).
PopFirst(q) == Head(q)

\* scan() (scan.py:236-246): pop(0) of the queue, a new
\* AsyncRegionsetScanner for that set (scan.py:116-131: a new pool, a new
\* queue) and its scan() (scan.py:133-143).  The histories start again
\* with the new session.
WorldScan ==
    /\ world.regionsets # << >>
    /\ LET i == PopFirst(world.regionsets)
           coll == world.colls[i]
           batches == MapAsync(coll)
       IN /\ world' = [world EXCEPT
                         !.regionsets = Tail(@),
                         !.current = i,
                         !.started = Append(@, i),
                         !.colls = IF world.current = None THEN @
                                   ELSE [@ EXCEPT ![world.current] = collection]]
          /\ disk' = world.sets[i]
          /\ collection' = coll
          /\ taskq' = batches
          /\ scanner' = [submitted |-> TRUE, closed |-> TRUE,
                         number_left |-> Len(batches),
                         str_last_scanned |-> EmptyString]
          /\ workers' = [w \in 1 .. processes |->
                            [state |-> "idle", batch |-> << >>, lost |-> << >>]]
          /\ queue' = << >>
          /\ puts' = [n \in 1 .. Len(world.sets[i]) |-> << >>]
          /\ delivered' = [n \in 1 .. Len(world.sets[i]) |-> 0]
          /\ raised' = << >>

\* The caller's first step.  console_scan_loop (scan.py:433-440) calls
\* scan() unless len(scanner) is 0, and then it is done with the scanner
\* ("w_skip"); a reader of results calls nothing first (scan.py:310).
WorldStart ==
    /\ ctl.pc = "start"
    /\ IF ctl.mode = "pull"
       THEN IF WorldLen = 0
            THEN /\ ctl' = [ctl EXCEPT !.pc = "w_skip"]
                 /\ UNCHANGED << world, innerVars >>
            ELSE /\ WorldScan
                 /\ ctl' = [ctl EXCEPT !.pc = "w_fin"]
       ELSE /\ ctl' = [ctl EXCEPT !.pc = "w_fin"]
            /\ UNCHANGED << world, innerVars >>
    /\ UNCHANGED worldFixed

\* finished (scan.py:286-289) is
\*   not self.regionsets and self._current_regionset.finished
\* and the inner finished (scan.py:204-207) is ready() and queue.empty():
\* three reads, each a step of its own.  With no current session the
\* second operand raises AttributeError.
WorldFinished ==
    /\ ctl.pc = "w_fin"
    /\ ctl' = IF world.regionsets # << >>
              THEN [ctl EXCEPT !.pc = "w_cr"]
              ELSE IF world.current = None
                   THEN [ctl EXCEPT !.pc = "w_error",
                                    !.errors = Append(@, "AttributeError")]
                   ELSE [ctl EXCEPT !.pc = "w_fin_ready"]
    /\ UNCHANGED << world, innerVars, worldFixed >>

WorldFinishedReady ==
    /\ ctl.pc = "w_fin_ready"
    /\ ctl' = [ctl EXCEPT !.pc = IF Ready THEN "w_fin_empty" ELSE "w_cr"]
    /\ UNCHANGED << world, innerVars, worldFixed >>

WorldFinishedEmpty ==
    /\ ctl.pc = "w_fin_empty"
    /\ ctl' = [ctl EXCEPT !.pc = IF QueueEmpty THEN "w_done" ELSE "w_cr"]
    /\ UNCHANGED << world, innerVars, worldFixed >>

\* The truth value of the current session where results tests it
\* (scan.py:312: "if cr and ..."): None is false, and so is a session of
\* an empty regionset, by its __len__ (scan.py:215-216).
CrTruthy == world.current # None /\ Cardinality(DOMAIN collection) > 0

\* cr = self._current_regionset and the test of it: "cr is not None" in
\* get_last_result (scan.py:258-260, else 271-272), "cr and" in results
\* (scan.py:311-312).
WorldCurrent ==
    /\ ctl.pc = "w_cr"
    /\ ctl' = IF ctl.mode = "pull"
              THEN IF world.current = None
                   THEN [ctl EXCEPT !.pc = "w_fin", !.result = << >>]
                   ELSE [ctl EXCEPT !.pc = "w_cr_ready"]
              ELSE IF CrTruthy
                   THEN [ctl EXCEPT !.pc = "w_cr_ready"]
                   ELSE [ctl EXCEPT !.pc = "w_elif"]
    /\ UNCHANGED << world, innerVars, worldFixed >>

\* Where the caller goes on in the inner session when it is not finished:
\* cr.get_last_result() (scan.py:263) or cr.results (scan.py:313).
InnerEntry(mode) == IF mode = "pull" THEN "chk_empty" ELSE "res_empty"

\* "not cr.finished" (scan.py:262, 312): ready(), then queue.empty().
WorldCrReady ==
    /\ ctl.pc = "w_cr_ready"
    /\ ctl' = [ctl EXCEPT !.pc = IF Ready THEN "w_cr_empty"
                                 ELSE InnerEntry(ctl.mode)]
    /\ UNCHANGED << world, innerVars, worldFixed >>

WorldCrEmpty ==
    /\ ctl.pc = "w_cr_empty"
    /\ ctl' = [ctl EXCEPT !.pc = IF QueueEmpty THEN "w_elif"
                                 ELSE InnerEntry(ctl.mode)]
    /\ UNCHANGED << world, innerVars, worldFixed >>

\* "elif self.regionsets: self.scan()" (scan.py:266-270, 315-316): the
\* current session is finished or false; the next set is started if one is
\* queued.  get_last_result returns None, results goes round its loop.
WorldElif ==
    /\ ctl.pc = "w_elif"
    /\ IF world.regionsets # << >>
       THEN WorldScan
       ELSE UNCHANGED << world, innerVars >>
    /\ ctl' = [ctl EXCEPT !.pc = "w_fin", !.result = << >>]
    /\ UNCHANGED worldFixed

\* The inner call is over: cr.get_last_result() has returned
\* (scan.py:263-265), or cr.results has ended (scan.py:313-314).
WorldReturn ==
    /\ \/ ctl.mode = "pull" /\ ctl.pc = "fin_ready"
       \/ ctl.mode = "stream" /\ ctl.pc = "done"
    /\ ctl' = [ctl EXCEPT !.pc = "w_fin"]
    /\ UNCHANGED << world, innerVars, worldFixed >>

\* The caller has caught the ChildProcessException and calls again.
WorldResume ==
    /\ ctl.pc = "raised"
    /\ ctl' = [ctl EXCEPT !.pc = "w_fin"]
    /\ UNCHANGED << world, innerVars, worldFixed >>

\* The steps of the inner session the world scanner runs: get_last_result
\* of the current session, or its results generator.
WorldInner ==
    \/ ctl.mode = "stream" /\ CtlResultsEmpty
    \/ ctl.mode = "stream" /\ CtlFinishedReady
    \/ ctl.mode = "stream" /\ CtlFinishedEmpty
    \/ CtlCheckEmpty
    \/ CtlGet

WorldController ==
    \/ WorldStart
    \/ WorldFinished
    \/ WorldFinishedReady
    \/ WorldFinishedEmpty
    \/ WorldCurrent
    \/ WorldCrReady
    \/ WorldCrEmpty
    \/ WorldElif
    \/ WorldReturn
    \/ WorldResume
    \/ WorldInner

NextWorld ==
    \/ WorldController
    \/ \E w \in 1 .. processes : Worker(w) \/ WorkerRespawn(w)

SpecWorld == InitWorld /\ [][NextWorld]_vars

\* The pool runs its live workers, and the caller goes on calling.
FairSpecWorld ==
    /\ SpecWorld
    /\ WF_vars(WorldController)
    /\ \A w \in 1 .. MaxProcs : WF_vars(w \in 1 .. processes /\ Worker(w))

(***************************************************************************)
(* A scan of an object that an earlier scan has already populated: its     *)
(* chunk map holds one record of that scan.                                *)
(***************************************************************************)
StaleRecords ==
    {<< 0, CHUNK_OK >>, << EntityLimit + 1, CHUNK_TOO_MANY_ENTITIES >>}
PopulatedChunks ==
    {EmptyDict} \cup {DictSet(EmptyDict, k, c) : k \in Coords, c \in StaleRecords}

InitRescan ==
    /\ entity_limit = EntityLimit
    /\ delete_entities \in BOOLEAN
    /\ \E chunks \in PopulatedChunks :
          scan = StartScan([NewScannedRegionFile(1) EXCEPT !.chunks = chunks])
    /\ NoSession

SpecRescan == InitRescan /\ [][NextRegion]_vars

(***************************************************************************)
(* Properties of the chunk classifier and of the region scanner.           *)
(***************************************************************************)
\* The slots read so far, and among them those that decoded to a chunk.
ReadSlots == DOMAIN scan.region_file
DecodedSlots == {k \in ReadSlots : scan.region_file[k].dec = "chunk"}
ExpectedCoords(k) == GlobalChunkCoords(k[1], k[2])
\* The scan has returned the filled object with status REGION_OK.
ScanCompleted ==
    /\ scan.pc = "returned"
    /\ ~ scan.ret.tuple
    /\ scan.r.status = REGION_OK
StoredStatus(k) == scan.r.chunks[k][TUPLE_STATUS + 1]
StoredEntities(k) == scan.r.chunks[k][TUPLE_NUM_ENTITIES + 1]

\* C6: for every successfully decoded chunk scan_chunk returns the chunk's
\* entity count and the status WRONG_LOCATED when the declared coordinate
\* differs from the expected one (whatever the entity count), otherwise
\* TOO_MANY_ENTITIES when the entity count exceeds the limit, otherwise OK
\* (an entity count equal to the limit is OK); before the shared-offset
\* pass, and without deletion, that is the record the scan has stored.
C6_ChunkClassification ==
    \A k \in DecodedSlots :
        LET ch == scan.region_file[k]
            res == scan_chunk(ch, ExpectedCoords(k), entity_limit)
        IN /\ res.raised = ""
           /\ Len(res.c) = 2
           /\ res.c[TUPLE_NUM_ENTITIES + 1] = ch.num_entities
           /\ ch.data_coords # ExpectedCoords(k)
                 => res.c[TUPLE_STATUS + 1] = CHUNK_WRONG_LOCATED
           /\ (ch.data_coords = ExpectedCoords(k)
                 /\ ch.num_entities > entity_limit)
                 => res.c[TUPLE_STATUS + 1] = CHUNK_TOO_MANY_ENTITIES
           /\ (ch.data_coords = ExpectedCoords(k)
                 /\ ch.num_entities <= entity_limit)
                 => res.c[TUPLE_STATUS + 1] = CHUNK_OK
           /\ (scan.pc \in {"loop", "shared"} /\ ~ delete_entities)
                 => (k \in DOMAIN scan.r.chunks /\ scan.r.chunks[k] = res.c)

\* C6 witness: a chunk at its place with exactly entity_limit entities has
\* been classified, and stored as OK.
C6_Witness ==
    \E k \in DecodedSlots :
        /\ scan.region_file[k].data_coords = ExpectedCoords(k)
        /\ scan.region_file[k].num_entities = entity_limit
        /\ k \in DOMAIN scan.r.chunks
        /\ scan.r.chunks[k] = << entity_limit, CHUNK_OK >>

\* The correctly located chunks read so far that exceed the entity limit.
OverflowSlots ==
    {k \in DecodedSlots :
        /\ scan.region_file[k].data_coords = ExpectedCoords(k)
        /\ scan.region_file[k].num_entities > entity_limit}
DeleteCalls(k) ==
    Cardinality({j \in 1 .. Len(scan.deleted) : scan.deleted[j] = k})

C8_SharedOffsetPass ==
    [][ scan.pc = "shared" =>
          LET before == scan.r.chunks
              after == scan'.r.chunks
              wrong_located ==
                  {k \in DOMAIN before :
                      before[k][TUPLE_STATUS + 1] = CHUNK_WRONG_LOCATED}
              reclassified ==
                  {k \in wrong_located : scan.region_file[k].overlapping}
          IN /\ scan'.pc = "returned"
             /\ scan'.ret = Success(scan'.r)
             /\ DOMAIN after = DOMAIN before
             /\ \A k \in DOMAIN before :
                   IF k \in reclassified
                   THEN after[k] = << before[k][TUPLE_NUM_ENTITIES + 1],
                                      CHUNK_SHARED_OFFSET >>
                   ELSE after[k] = before[k]
             /\ scan'.r.shared_offset = Cardinality(reclassified)
             /\ scan'.r.wrong_located_chunks = Cardinality(wrong_located)
      ]_scan

\* C8 witness: a completed scan in which one flagged slot was reclassified
\* SHARED_OFFSET and another flagged slot keeps its status OK.
C8_Witness ==
    /\ ScanCompleted
    /\ \E k1, k2 \in DOMAIN scan.r.chunks :
          /\ scan.region_file[k1].overlapping
          /\ scan.region_file[k2].overlapping
          /\ StoredStatus(k1) = CHUNK_SHARED_OFFSET
          /\ StoredStatus(k2) = CHUNK_OK
          /\ scan.r.shared_offset = 1
          /\ scan.r.wrong_located_chunks >= 1

TerminalStatuses ==
    {CHUNK_OK, CHUNK_TOO_MANY_ENTITIES, CHUNK_CORRUPTED, CHUNK_WRONG_LOCATED,
     CHUNK_SHARED_OFFSET}

\* C9: after a completed region scan a slot is stored in the chunk map if
\* and only if decoding it did not signal 'chunk absent', and every stored
\* slot has a status other than NOT_CREATED, whatever object was handed to
\* the scan (created empty or already populated).
C9_StoredIffNotAbsent ==
    ScanCompleted =>
        \A k \in Coords :
            /\ (k \in DOMAIN scan.r.chunks)
                  <=> (scan.region_file[k].dec # "InconceivedChunk")
            /\ k \in DOMAIN scan.r.chunks
                  => StoredStatus(k) \in TerminalStatuses

(***************************************************************************)
(* Properties of the scan session.                                         *)
(***************************************************************************)
\* The exception that escapes the scan of a file, "" when none does: the
\* first one the format reader raises, in the order the scan reads.
RaisingSlots(file) ==
    {i \in 0 .. NumSlots - 1 :
        file.chunks[RasterCoord(i)].dec \in {"Exception", "KeyboardInterrupt"}}
FirstSlot(S) == CHOOSE i \in S : \A j \in S : i <= j
RegionRaises(file) ==
    IF file.open \in {"Exception", "KeyboardInterrupt"} THEN file.open
    ELSE IF file.open # "ok" \/ RaisingSlots(file) = {} THEN ""
    ELSE file.chunks[RasterCoord(FirstSlot(RaisingSlots(file)))].dec
TaskRaises(t) ==
    IF kind = "regionset" THEN RegionRaises(disk[t])
    ELSE IF disk[t].dec \in {"Exception", "KeyboardInterrupt"}
         THEN disk[t].dec ELSE ""

\* The tasks no worker has finished yet, and the items of each task that
\* are in the queue or were raised as ChildProcessException.
SeqRange(q) == {q[i] : i \in 1 .. Len(q)}
LostBatches == UNION {SeqRange(workers[w].lost) : w \in DOMAIN workers}
PendingObjects ==
    UNION {SeqRange(taskq[i]) : i \in 1 .. Len(taskq)}
    \cup UNION {SeqRange(workers[w].batch) : w \in DOMAIN workers}
    \cup UNION {SeqRange(b) : b \in LostBatches}
TaskDone(t) ==
    scanner.submitted /\ \A obj \in PendingObjects : obj.filename # t
InQueue(t) ==
    Cardinality({i \in 1 .. Len(queue) : queue[i].obj[1].filename = t})
Raised(t) ==
    Cardinality({i \in 1 .. Len(raised) : raised[i].scanned_file.filename = t})

\* C1: the results generator ends only when the pool reports every task
\* done and the queue is empty, and by then every task has put its one item
\* and every success among them has been yielded exactly once and written
\* to the collection (all of them, when no task faults).
C1_ResultsLosesNothing ==
    (ctl.mode = "stream" /\ ctl.pc = "done") =>
        /\ Ready
        /\ queue = << >>
        /\ \A t \in TaskIds :
              /\ Len(puts[t]) = 1
              /\ delivered[t] = IF puts[t][1].tuple THEN 0 ELSE 1
              /\ ~ puts[t][1].tuple
                    => collection[KeyOfTask(t)] = puts[t][1].obj[1]
        /\ raised = << >> => \A t \in TaskIds : delivered[t] = 1

\* C1 witness: results has ended after yielding the results of MaxTasks
\* tasks that several workers ran, none of them a fault.
C1_Witness ==
    /\ ctl.mode = "stream"
    /\ ctl.pc = "done"
    /\ processes > 1
    /\ Len(disk) = MaxTasks
    /\ raised = << >>
    /\ \A t \in TaskIds : delivered[t] = 1

\* C2: a task whose scan hits an unclassified exception puts exactly one
\* item, a fault tuple of its own partially filled object and the
\* exception's kind, class and frames, and no success; the consumer that
\* pops it raises ChildProcessException with that object as scanned_file.
C2_OneFaultRecord ==
    \A t \in TaskIds :
        TaskRaises(t) = "Exception" =>
            /\ Len(puts[t]) <= 1
            /\ TaskDone(t) => Len(puts[t]) = 1
            /\ delivered[t] = 0
            /\ InQueue(t) + Raised(t) = Len(puts[t])
            /\ \A i \in 1 .. Len(puts[t]) :
                  /\ puts[t][i].tuple
                  /\ puts[t][i].obj[1].filename = t
                  /\ Key(puts[t][i].obj[1]) = KeyOfTask(t)
                  /\ kind = "regionset" => ~ puts[t][i].obj[1].scanned
                  /\ Len(puts[t][i].exc) = 3
                  /\ puts[t][i].exc[1] = "Exception"
                  /\ puts[t][i].exc[2] = "Exception"
            /\ \A i \in 1 .. Len(raised) :
                  raised[i].scanned_file.filename = t =>
                      raised[i] =
                          ChildProcessException(puts[t][1].obj[1],
                                                puts[t][1].exc[1],
                                                puts[t][1].exc[2],
                                                puts[t][1].exc[3])

\* C2 witness: the consumer has raised the fault of a region scan that had
\* stored a chunk before the exception.
C2_Witness ==
    /\ kind = "regionset"
    /\ Len(raised) = 1
    /\ TaskRaises(raised[1].scanned_file.filename) = "Exception"
    /\ raised[1].scanned_file.chunks # EmptyDict
    /\ raised[1].exc_type = "Exception"

NoInterrupt ==
    \A t \in TaskIds :
        ~ (kind = "regionset" /\ TaskRaises(t) = "KeyboardInterrupt")

FaultIsolation ==
    /\ \A b \in LostBatches :
          TaskRaises(Head(b).filename) = "KeyboardInterrupt"
    /\ Ready => \A t \in TaskIds : Len(puts[t]) = 1
    /\ (ctl.pc = "done" /\ scanner.submitted) =>
          /\ Ready
          /\ queue = << >>
          /\ \A t \in TaskIds :
                /\ delivered[t] = IF TaskRaises(t) = "" THEN 1 ELSE 0
                /\ Raised(t) = IF TaskRaises(t) = "" THEN 0 ELSE 1

\* C3: a fault does not lose the session.  A worker ends only by a
\* deliberate interrupt, never by a fault, so it goes on with the rest of
\* its batch; when the pool is ready every task has put its item; and a
\* caller that goes on calling after a fault was raised receives every
\* other result and then finds the session finished.
C3_FaultIsolation ==
    /\ []FaultIsolation
    /\ NoInterrupt => <>(ctl.pc = "done")

\* C3 witness: one worker ran a batch whose first task faulted; the caller
\* got the fault raised, went on, received the second task's result and
\* found the session finished.
C3_Witness ==
    /\ ctl.mode = "pull"
    /\ ctl.pc = "done"
    /\ processes = 1
    /\ Len(disk) = 2
    /\ TaskRaises(1) = "Exception"
    /\ Raised(1) = 1
    /\ delivered[2] = 1

\* C4: get_last_result on an empty queue returns None and changes nothing;
\* on a success it overwrites the collection at exactly the result's key
\* and returns it; on a fault it raises and leaves the collection as it
\* was; the get after the non-empty check always finds an item.
C4_PullOne ==
    [][ ctl.mode = "pull" =>
          /\ ctl'.pc = "get" => queue' # << >>
          /\ (ctl.pc = "chk_empty" /\ ctl' # ctl) =>
                IF queue = << >>
                THEN /\ ctl'.result = << >>
                     /\ ctl'.pc = "fin_ready"
                     /\ UNCHANGED << collection, scanner, queue, delivered,
                                     raised, taskq, workers, puts >>
                ELSE /\ ctl'.pc = "get"
                     /\ UNCHANGED << collection, queue >>
          /\ (ctl.pc = "get" /\ ctl' # ctl) =>
                LET r == Head(queue)
                    obj == r.obj[1]
                    key == IF kind = "regionset"
                           THEN obj.coords ELSE obj.filename
                IN /\ queue' = Tail(queue)
                   /\ IF r.tuple
                      THEN /\ collection' = collection
                           /\ ctl'.pc = "raised"
                           /\ Len(raised') = Len(raised) + 1
                           /\ raised'[Len(raised')].scanned_file = obj
                      ELSE /\ DOMAIN collection' = DOMAIN collection \cup {key}
                           /\ collection'[key] = obj
                           /\ \A k \in DOMAIN collection \ {key} :
                                 collection'[k] = collection[k]
                           /\ ctl'.result = << obj >>
                           /\ raised' = raised
      ]_vars

\* C4 witness: get_last_result has raised a fault and, called again, has
\* returned a success that is now in the collection.
C4_Witness ==
    /\ ctl.mode = "pull"
    /\ ctl.pc = "fin_ready"
    /\ raised # << >>
    /\ ctl.result # << >>
    /\ collection[Key(ctl.result[1])] = ctl.result[1]

\* What one process scanning the files one after the other leaves in the
\* collection for task t: the scanned object, or the object as it was when
\* the scan faults or is interrupted.
SequentialEntry(t) ==
    LET done == TaskFunction(NewObject(kind, t))
    IN IF done.pc = "returned" /\ ~ done.ret.tuple
       THEN done.ret.obj[1] ELSE NewObject(kind, t)
Counters(r) ==
    << r.corrupted_chunks, r.wrong_located_chunks, r.entities_prob,
       r.shared_offset >>

\* C5: whatever the number of worker processes and the order of
\* completions and deliveries, a finished session leaves for every region
\* file the aggregate counters that one process scanning the files in turn
\* computes.
C5_SameCounters ==
    (kind = "regionset" /\ scanner.submitted /\ Ready /\ queue = << >>) =>
        \A t \in TaskIds :
            Counters(collection[KeyOfTask(t)]) = Counters(SequentialEntry(t))

\* C5 witness: two workers; the second task's result was delivered before
\* the first task's, and both files have problems counted.
C5_Witness ==
    /\ kind = "regionset"
    /\ processes = 2
    /\ Len(disk) = 2
    /\ Ready
    /\ queue = << >>
    /\ delivered[1] = 1
    /\ delivered[2] = 1
    /\ ctl.result # << >>
    /\ ctl.result[1].filename = 1
    /\ \A t \in TaskIds :
          collection[KeyOfTask(t)].wrong_located_chunks = 1

C11_DataOutcomes ==
    kind = "data" =>
        \A t \in TaskIds :
            /\ Len(puts[t]) <= 1
            /\ TaskDone(t) => Len(puts[t]) = 1
            /\ \A i \in 1 .. Len(puts[t]) :
                  LET item == puts[t][i]
                      s == item.obj[1]
                  IN /\ s.filename = t
                     /\ disk[t].dec = "ok" =>
                           /\ ~ item.tuple
                           /\ s.readable = "True"
                           /\ s.status_text = NewScannedDatFile(t).status_text
                     /\ disk[t].dec \in {"MalformedFileError", "IOError"} =>
                           /\ ~ item.tuple
                           /\ s.readable = "False"
                           /\ s.status_text = disk[t].msg
                     /\ disk[t].dec \notin {"ok", "MalformedFileError",
                                            "IOError"} =>
                           /\ item.tuple
                           /\ item.exc[1] = disk[t].dec

\* C11 witness: a data session has delivered a file that failed to decode
\* and a file that could not be read, both as results with the message.
C11_Witness ==
    /\ kind = "data"
    /\ Len(disk) = 2
    /\ disk[1].dec = "MalformedFileError"
    /\ disk[2].dec = "IOError"
    /\ delivered[1] = 1
    /\ delivered[2] = 1
    /\ \A t \in TaskIds :
          /\ collection[KeyOfTask(t)].readable = "False"
          /\ collection[KeyOfTask(t)].status_text = disk[t].msg

\* C14: in a region scan and in a data file scan alike, a deliberate
\* interrupt raised during the scan of a task is never turned into a fault
\* tuple: the task puts nothing on the queue, neither a result nor a fault.
C14_InterruptPropagates ==
    \A t \in TaskIds :
        TaskRaises(t) = "KeyboardInterrupt" => puts[t] = << >>

\* The slots read so far whose decoding failed with a region-header,
\* chunk-header or chunk-data error, and those where some other exception
\* or an interrupt was raised.
CorruptSlots == {k \in ReadSlots : scan.region_file[k].dec \in DecodeErrors}
AbortingSlots ==
    {k \in ReadSlots :
        scan.region_file[k].dec \in {"Exception", "KeyboardInterrupt"}}

\* C19: a decode failure of a slot never aborts the region scan.  The slot
\* is stored CORRUPTED with entity count None and counted in corrupted, the
\* scan goes on through the slots in raster order (x outer, z inner), and
\* unless something other than a decode failure is raised it reads every
\* slot and returns the object with status OK.
C19_DecodeFailureGoesOn ==
    /\ \A k \in CorruptSlots :
          /\ k \in DOMAIN scan.r.chunks
          /\ scan.r.chunks[k] = << None, CHUNK_CORRUPTED >>
    /\ scan.corrupted = Cardinality(CorruptSlots)
    /\ scan.pc = "loop" =>
          /\ scan.i < NumSlots
          /\ ReadSlots =
                {<< x, z >> \in Coords : x * ZSize + z < scan.i}
    /\ scan.pc = "shared" => ReadSlots = Coords
    /\ (scan.opened = "ok" /\ AbortingSlots = {}
          /\ scan.pc \notin {"loop", "shared"}) =>
             /\ ScanCompleted
             /\ ReadSlots = Coords
             /\ scan.r.corrupted_chunks = Cardinality(CorruptSlots)

\* C19 witness: the first slot failed to decode, a later slot holds a chunk
\* that was classified, and the scan has returned with status OK.
C19_Witness ==
    /\ ScanCompleted
    /\ RasterCoord(0) \in CorruptSlots
    /\ DOMAIN scan.r.chunks \ CorruptSlots # {}
    /\ scan.r.corrupted_chunks = 1

\* The status of a slot at the time the loop reads it, from what the
\* format reader gives for it ("" when the slot is absent).
DetectedStatus(k, ch) ==
    IF ch.dec \in DecodeErrors THEN CHUNK_CORRUPTED
    ELSE IF ch.dec # "chunk" THEN ""
    ELSE IF ch.data_coords # ExpectedCoords(k) THEN CHUNK_WRONG_LOCATED
    ELSE IF ch.num_entities > entity_limit THEN CHUNK_TOO_MANY_ENTITIES
    ELSE CHUNK_OK
Incr(cond) == IF cond THEN 1 ELSE 0

\* C20: a turn of the loop that stores a slot adds one to chunk_count, and
\* adds one to exactly the problem counter of the slot's status at that
\* time: corrupted for CORRUPTED, wrong for WRONG_LOCATED, entities_prob
\* for TOO_MANY_ENTITIES without deletion; OK and an overflow with deletion
\* add to none, and an absent slot adds nothing.  The pass that ends the
\* scan writes these counters to the object.
C20_CounterUpdates ==
    [][ /\ (scan.pc = "loop" /\ scan'.pc \in {"loop", "shared"}) =>
             LET k == RasterCoord(scan.i)
                 status == DetectedStatus(k, scan'.region_file[k])
             IN /\ (k \in DOMAIN scan'.r.chunks) <=> (status # "")
                /\ scan'.chunk_count = scan.chunk_count + Incr(status # "")
                /\ scan'.corrupted =
                      scan.corrupted + Incr(status = CHUNK_CORRUPTED)
                /\ scan'.wrong =
                      scan.wrong + Incr(status = CHUNK_WRONG_LOCATED)
                /\ scan'.entities_prob =
                      scan.entities_prob
                      + Incr(status = CHUNK_TOO_MANY_ENTITIES
                             /\ ~ delete_entities)
                /\ (scan'.corrupted - scan.corrupted)
                   + (scan'.wrong - scan.wrong)
                   + (scan'.entities_prob - scan.entities_prob)
                      <= scan'.chunk_count - scan.chunk_count
        /\ scan.pc = "shared" =>
             /\ scan'.r.chunk_count = scan.chunk_count
             /\ scan'.r.corrupted_chunks = scan.corrupted
             /\ scan'.r.wrong_located_chunks = scan.wrong
             /\ scan'.r.entities_prob = scan.entities_prob
      ]_scan

\* C20 witness: a completed scan that stored two slots, one counted as
\* wrong located and one as having too many entities.
C20_Witness ==
    /\ ScanCompleted
    /\ scan.r.chunk_count = 2
    /\ scan.r.wrong_located_chunks = 1
    /\ scan.r.entities_prob = 1
    /\ scan.r.corrupted_chunks = 0

\* C17: the collection the controller holds is written by one step only,
\* the controller's get of a success result, which writes the entry of that
\* result's key and no other; no step of a worker (taking a batch, scanning
\* and putting, reporting, ending) changes it, in any interleaving.
C17_SingleWriter ==
    [][ /\ collection' # collection =>
             /\ ctl.pc = "get"
             /\ ctl'.pc # "raised"
             /\ queue # << >>
             /\ ~ Head(queue).tuple
             /\ queue' = Tail(queue)
             /\ workers' = workers
             /\ \A k \in DOMAIN collection :
                   k # Key(Head(queue).obj[1]) =>
                      (k \in DOMAIN collection' /\ collection'[k] = collection[k])
        /\ (workers' # workers \/ puts' # puts \/ taskq' # taskq) =>
             collection' = collection
      ]_vars

\* C17 witness: the controller has written a result to the collection
\* while a worker is still running a task.
C17_Witness ==
    /\ processes = 2
    /\ \E w \in DOMAIN workers :
          workers[w].state = "busy" /\ workers[w].batch # << >>
    /\ \E t \in TaskIds :
          /\ delivered[t] = 1
          /\ collection[KeyOfTask(t)] # NewObject(kind, t)

\* C18: the controller never waits for ever: once scan() was called, the
\* loop "while not finished: get_last_result()" and the results generator
\* come to their end, whatever the files hold.
C18_ControllerTerminates == <>(ctl.pc = "done")

\* The tasks of a sequence of batches, in order.
RECURSIVE Flatten(_)
Flatten(bs) == IF bs = << >> THEN << >> ELSE Head(bs) \o Flatten(Tail(bs))
AllExecuted ==
    scanner.submitted /\ Ready /\ \A t \in TaskIds : Len(puts[t]) = 1
NeverScanned == ~ scanner.submitted /\ ctl.pc = "done"

\* What a step may do to the tasks of the pool: scan() hands over every
\* object of the collection once, in order, and closes the pool; a closed
\* pool stays closed and takes no task any more, its queue only loses the
\* batch a worker takes (or everything, by terminate).
TasksOnlyLeave ==
    /\ (~ scanner.closed /\ scanner'.closed) =>
          /\ scanner'.submitted
          /\ Flatten(taskq') = [n \in TaskIds |-> collection[KeyOfTask(n)]]
          /\ scanner'.number_left = Len(taskq')
    /\ scanner.closed =>
          /\ scanner'.closed
          /\ scanner'.submitted
          /\ \/ taskq' = taskq
             \/ taskq # << >> /\ taskq' = Tail(taskq)
             \/ ctl'.terminated /\ taskq' = << >>
          /\ \A w \in DOMAIN workers :
                \/ workers'[w].batch = workers[w].batch
                \/ workers'[w].batch = << >>
                \/ workers[w].batch # << >>
                      /\ workers'[w].batch = Tail(workers[w].batch)
                \/ taskq # << >> /\ workers'[w].batch = Head(taskq)
                      /\ taskq' = Tail(taskq)

\* C12: scan() submits the whole task set once and closes the pool; after
\* that the pool accepts no task (a second scan() is refused), and, with
\* fair scheduling and neither terminate nor an interrupted scan, every
\* submitted task is run to its end: each puts its one item and the pool
\* reports all done.
C12_SubmitOnceThenClose ==
    /\ [][TasksOnlyLeave]_vars
    /\ NoInterrupt => <>(ctl.terminated \/ AllExecuted \/ NeverScanned)

\* C12 witness: a second scan() was refused, nothing was terminated, and
\* all MaxTasks tasks of the one submission were run, by one worker.
C12_Witness ==
    /\ ctl.errors = << "AssertionError" >>
    /\ ~ ctl.terminated
    /\ processes = 1
    /\ Len(disk) = MaxTasks
    /\ AllExecuted

\* C13: terminate() is there on the regionset session and on the data
\* session alike and stops the pool by force: once it was called no task
\* waits to be started and no worker process runs, so no task is started
\* or completed and nothing is put on the queue any more.
C13_TerminateStops ==
    ctl.terminated =>
        /\ "AttributeError" \notin SeqRange(ctl.errors)
        /\ taskq = << >>
        /\ \A w \in DOMAIN workers : workers[w].state = "terminated"

(***************************************************************************)
(* Properties of the multi-set session.                                    *)
(***************************************************************************)
\* The current Scan Session has nothing left: every batch is reported, no
\* worker holds or has lost a task, the queue is empty, and every task has
\* put one item that the caller has taken.
SessionComplete ==
    /\ Ready
    /\ QueueEmpty
    /\ taskq = << >>
    /\ \A w \in DOMAIN workers :
          /\ workers[w].state = "idle"
          /\ workers[w].batch = << >>
          /\ workers[w].lost = << >>
    /\ \A t \in TaskIds : Len(puts[t]) = 1 /\ delivered[t] + Raised(t) = 1

\* A step that starts the Scan Session of another set while there is a
\* current one.
StartsNextSet == world.current # None /\ world'.current # world.current

\* C15: in a multi-set session driven through get_last_result or results,
\* whenever the session starts the Scan Session of the next set, the
\* previous Scan Session is finished: all of its tasks are complete, its
\* queue is empty and no result of it is abandoned, so that no two pools
\* are at work at a time.
C15_OnePoolAtATime == [][StartsNextSet => SessionComplete]_vars

\* C15 witness: the session of the second set runs after a first set of
\* MaxTasks files, the results of which were all written back.
C15_Witness ==
    /\ world # NoWorld
    /\ Len(world.started) = 2
    /\ Len(world.sets[world.started[1]]) = MaxTasks
    /\ \A k \in DOMAIN world.colls[world.started[1]] :
          world.colls[world.started[1]][k].scanned
    /\ \E w \in DOMAIN workers : workers[w].state = "busy"

\* The regionset object of set i as the world sees it now.
WorldRegionset(i) ==
    IF i = world.current THEN collection ELSE world.colls[i]

\* No region file of the world is one whose scan is interrupted.
WorldNoInterrupt ==
    \A i \in DOMAIN world.sets : \A t \in DOMAIN world.sets[i] :
        RegionRaises(world.sets[i][t]) # "KeyboardInterrupt"

\* The sets started so far followed by the sets still queued are the
\* original queue, and the current set is the one started last.
QueueOrder ==
    /\ world.started \o world.regionsets = [i \in DOMAIN world.sets |-> i]
    /\ world.current = IF world.started = << >> THEN None
                       ELSE world.started[Len(world.started)]

\* A step that starts a session is scan(): it removes the first queued set
\* and submits each of its files once to the pool of a new session.
ScanPopsFirst ==
    world'.started # world.started =>
        /\ world.regionsets # << >>
        /\ world'.current = Head(world.regionsets)
        /\ world'.regionsets = Tail(world.regionsets)
        /\ world'.started = Append(world.started, Head(world.regionsets))
        /\ disk' = world.sets[Head(world.regionsets)]
        /\ scanner'.submitted
        /\ queue' = << >>
        /\ \A t \in DOMAIN disk' :
              Cardinality({j \in 1 .. Len(Flatten(taskq')) :
                              Flatten(taskq')[j].filename = t}) = 1

\* What a read of finished reports: true ("w_done") only with no set
\* queued and the current session ready with an empty queue, false
\* ("w_cr") only where a set is queued, or the current session is not
\* ready, or its queue is not empty.
FinishedReport ==
    /\ ctl.pc # "w_done" /\ ctl'.pc = "w_done" =>
          /\ ctl.pc = "w_fin_empty"
          /\ world.regionsets = << >>
          /\ world.current # None
          /\ Ready /\ QueueEmpty
    /\ ctl.pc = "w_fin" /\ ctl'.pc = "w_cr" => world.regionsets # << >>
    /\ ctl.pc = "w_fin_ready" /\ ctl'.pc = "w_cr" =>
          world.regionsets = << >> /\ ~ Ready
    /\ ctl.pc = "w_fin_empty" /\ ctl'.pc = "w_cr" =>
          world.regionsets = << >> /\ Ready /\ ~ QueueEmpty
    /\ ctl.pc = "w_fin_empty" /\ QueueEmpty => ctl'.pc = "w_done"

\* Every set of the original queue has been started, and every region file
\* of every set carries its scan, but for the files whose scan is a fault.
AllSetsScanned ==
    /\ world.started = [i \in DOMAIN world.sets |-> i]
    /\ \A i \in DOMAIN world.sets : \A t \in DOMAIN world.sets[i] :
          RegionRaises(world.sets[i][t]) = "" =>
              WorldRegionset(i)[Key(NewObject("regionset", t))].scanned

\* C16: a multi-set session scans its sets in queue order, each exactly
\* once: scan() removes the first queued set and starts a Scan Session for
\* it; the session reports finished if and only if no set is queued and
\* the current Scan Session is finished, and then every set of the
\* original queue has been scanned; and, the caller and the workers going
\* on, the next set is started whenever the current one finishes, so that
\* a world without an interrupted scan comes to report finished (or, with
\* no file at all, is not scanned by the console loop).
C16_QueueOrderEachOnce ==
    /\ [](world # NoWorld => QueueOrder)
    /\ [][ScanPopsFirst /\ FinishedReport]_vars
    /\ [](ctl.pc = "w_done" => AllSetsScanned /\ SessionComplete)
    /\ WorldNoInterrupt => <>(ctl.pc \in {"w_done", "w_skip"})

\* C16 witness: a world of MaxSets sets of MaxTasks files each, scanned by
\* several workers, has reported finished.
C16_Witness ==
    /\ ctl.pc = "w_done"
    /\ processes > 1
    /\ Len(world.sets) = MaxSets
    /\ \A i \in DOMAIN world.sets : Len(world.sets[i]) = MaxTasks
    /\ world.started = [i \in 1 .. MaxSets |-> i]
    /\ \A i \in DOMAIN world.sets : \A k \in DOMAIN WorldRegionset(i) :
          WorldRegionset(i)[k].scanned

(***************************************************************************)
(* Properties implied by the scanners and the sessions.                    *)
(***************************************************************************)
\* The slots of result r whose final status is status.
SlotsWithStatus(r, status) ==
    {k \in DOMAIN r.chunks : r.chunks[k][TUPLE_STATUS + 1] = status}

\* The call has returned a result (not a fault tuple) with status OK.
ReturnedOK ==
    /\ scan # << >>
    /\ scan.pc = "returned"
    /\ ~ scan.ret.tuple
    /\ scan.ret.obj[1].status = REGION_OK

\* C21: in every region result finished with status OK, the scan having
\* started from an empty result: shared_offset <= wrong_located_chunks;
\* corrupted_chunks + wrong_located_chunks + entities_prob <= chunk_count
\* <= the number of slots of a region file (32 * 32 in the source);
\* chunk_count is the number of stored slots; and the number of slots whose
\* final status is WRONG_LOCATED is wrong_located_chunks - shared_offset.
C21_CounterRelations ==
    ReturnedOK =>
        LET r == scan.ret.obj[1]
        IN /\ r.shared_offset <= r.wrong_located_chunks
           /\ r.corrupted_chunks + r.wrong_located_chunks + r.entities_prob
                 <= r.chunk_count
           /\ r.chunk_count <= NumSlots
           /\ r.chunk_count = Cardinality(DOMAIN r.chunks)
           /\ Cardinality(SlotsWithStatus(r, CHUNK_WRONG_LOCATED))
                 = r.wrong_located_chunks - r.shared_offset

\* C21 witness: a result with status OK in which one of two wrong located
\* chunks was reclassified as sharing its offset.
C21_Witness ==
    /\ ReturnedOK
    /\ scan.ret.obj[1].wrong_located_chunks = 2
    /\ scan.ret.obj[1].shared_offset = 1
    /\ Cardinality(SlotsWithStatus(scan.ret.obj[1], CHUNK_WRONG_LOCATED)) = 1

\* finished of a Scan Session (scan.py:180-182, 377-379): ready() and
\* queue.empty().
Finished == Ready /\ QueueEmpty

\* Nothing is put on the queue in a step from a finished session.
NoPutAfterFinished == Finished => puts' = puts /\ queue' = queue

\* C22: finished of a Scan Session is stable: a worker puts its item on the
\* queue before its batch is reported, so once the pool is ready and the
\* queue is empty no item arrives afterwards, and finished is true in every
\* later state, whatever the caller calls.
C22_FinishedStable ==
    /\ [][NoPutAfterFinished]_vars
    /\ [](Finished => []Finished)

\* C22 witness: a data session of MaxTasks files run by several workers is
\* finished, each task has put its item, and the caller's loop has ended.
C22_Witness ==
    /\ Finished
    /\ kind = "data"
    /\ processes > 1
    /\ Len(disk) = MaxTasks
    /\ \A t \in TaskIds : Len(puts[t]) = 1
    /\ ctl.pc = "done"

\* The task has been started: it has put its item, or it ended its worker.
Started(t) ==
    Len(puts[t]) > 0 \/ \E b \in LostBatches : Head(b).filename = t

RECURSIVE SumOver(_, _)
SumOver(f, S) ==
    IF S = {} THEN 0
    ELSE LET t == CHOOSE x \in S : TRUE IN f[t] + SumOver(f, S \ {t})

\* The items the caller has taken from the queue, returned or raised.
Consumed == SumOver([t \in TaskIds |-> delivered[t] + Raised(t)], TaskIds)

\* C23: each submitted task puts at most one item on the queue and each
\* item is taken at most once: in every reachable state the items the
\* caller has taken plus the items in the queue are no more than the tasks
\* started, no task's result is delivered twice, and when the pool is
\* ready the items put are as many as the tasks submitted.
C23_OneItemPerTask ==
    /\ \A t \in TaskIds :
          /\ Len(puts[t]) <= 1
          /\ delivered[t] + Raised(t) <= 1
          /\ delivered[t] + Raised(t) + InQueue(t) = Len(puts[t])
          /\ Len(puts[t]) > 0 => Started(t)
    /\ Consumed + Len(queue) <= Cardinality({t \in TaskIds : Started(t)})
    /\ Ready =>
          SumOver([t \in TaskIds |-> Len(puts[t])], TaskIds)
              = Cardinality(DOMAIN collection)

\* C23 witness: the pool of several workers is ready, one task's result has
\* been delivered and another task's item is still in the queue.
C23_Witness ==
    /\ Ready
    /\ processes > 1
    /\ \E t, u \in TaskIds :
          /\ t # u
          /\ delivered[t] = 1
          /\ InQueue(u) = 1

\* What the scan of task t returns, when it returns a result.
ScannedResult(t) == TaskFunction(NewObject(kind, t)).ret.obj[1]

\* Every entry of the collection is the scanned result of its task.
AllEntriesScanned ==
    \A t \in TaskIds :
        /\ collection[KeyOfTask(t)] = ScannedResult(t)
        /\ collection[KeyOfTask(t)] # NewObject(kind, t)
        /\ kind = "regionset" => collection[KeyOfTask(t)].scanned

\* C24: consuming results never changes the key set of the collection: a
\* success overwrites the entry under the key its task was submitted for
\* and no key is added or removed; and when a Scan Session that raised no
\* fault is finished, every entry of the collection is the scanned result
\* of its task (scanned = true for regions).
C24_KeySetKept ==
    /\ [][DOMAIN collection' = DOMAIN collection]_vars
    /\ [](DOMAIN collection = {KeyOfTask(t) : t \in TaskIds})
    /\ [](Finished /\ raised = << >> => AllEntriesScanned)

\* C24 witness: a regionset session of MaxTasks files that raised no fault
\* is finished, with every result delivered by get_last_result.
C24_Witness ==
    /\ kind = "regionset"
    /\ ctl.mode = "pull"
    /\ Finished
    /\ raised = << >>
    /\ Len(disk) = MaxTasks
    /\ \A t \in TaskIds : delivered[t] = 1
    /\ AllEntriesScanned

\* The region files of all the sets of the world.
TotalFiles ==
    SumOver([i \in DOMAIN world.sets |-> Len(world.sets[i])],
            DOMAIN world.sets)

\* The region files of the sets started so far.
StartedFiles ==
    SumOver([i \in DOMAIN world.sets |->
                IF \E j \in DOMAIN world.started : world.started[j] = i
                THEN Len(world.sets[i]) ELSE 0],
            DOMAIN world.sets)

\* The results the session has delivered so far: those of the current set,
\* and for each set before it the entries its results have overwritten.
WorldDelivered ==
    SumOver([i \in DOMAIN world.sets |->
                IF i = world.current
                THEN SumOver(delivered, DOMAIN delivered)
                ELSE Cardinality({k \in DOMAIN world.colls[i] :
                                     world.colls[i][k].scanned})],
            DOMAIN world.sets)

\* No region file of the world is one whose scan faults or is interrupted.
WorldNoFault ==
    \A i \in DOMAIN world.sets : \A t \in DOMAIN world.sets[i] :
        RegionRaises(world.sets[i][t]) = ""

\* A step in which scan() pops a set takes the size of that set from len().
LenDropsBySet ==
    world'.started # world.started =>
        WorldLen' = WorldLen - Len(world.sets[Head(world.regionsets)])

\* C25: len() of a multi-set session counts the sets still queued only: it
\* drops by the size of a set each time scan() pops it; read before the
\* first scan() it is the number of results the whole session delivers
\* when no task faults, the maximum the progress loop takes, which the
\* number of results delivered never exceeds.
C25_LenCountsQueued ==
    /\ [][LenDropsBySet]_vars
    /\ [](WorldLen = TotalFiles - StartedFiles)
    /\ [](world.started = << >> => WorldLen = TotalFiles)
    /\ [](WorldDelivered <= TotalFiles)
    /\ [](ctl.pc = "w_done" /\ WorldNoFault => WorldDelivered = TotalFiles)

\* C25 witness: the console loop has finished a world of MaxSets sets of
\* MaxTasks files without a fault; len() is 0 and the results delivered are
\* as many as len() was before the first scan().
C25_Witness ==
    /\ ctl.mode = "pull"
    /\ ctl.pc = "w_done"
    /\ WorldNoFault
    /\ Len(world.sets) = MaxSets
    /\ \A i \in DOMAIN world.sets : Len(world.sets[i]) = MaxTasks
    /\ WorldLen = 0
    /\ WorldDelivered = MaxSets * MaxTasks

=============================================================================
